---- MODULE Spec2Model ----
(***************************************************************************)
(* A model of pwm (src/src/main.rs): read_fasta, calculate_pwm,            *)
(* write_pwm_to_tsv and main.                                              *)
(*                                                                         *)
(* Text is modelled as sequences of characters, a character being a        *)
(* one-character string.  A String's len() is its UTF-8 byte length, its   *)
(* chars() are its characters: the two differ for the two-byte "é".        *)
(* An f64 is modelled by the fraction <<num, den>> it was computed from:   *)
(* the counts are small integers (exact in f64) and the only other         *)
(* operation is one division by the number of sequences.                   *)
(* A HashMap is modelled as a sequence of entries in its iteration order,  *)
(* which depends on the map's RandomState (seed).                          *)
(***************************************************************************)
EXTENDS Integers, Sequences, FiniteSets, TLC

VARIABLES
    args_len,      \* env::args().len(), the program name included
    input_exists,  \* Path::new(fasta_file).exists()
    lines,         \* the lines of the input file
    seed,          \* the RandomState of this run's HashMaps
    run,           \* 1 for the first run of the program, 2 for the second
    pc,            \* the position in main
    line_no,       \* read_fasta: lines consumed so far
    current_seq,   \* read_fasta: the accumulator
    sequences,     \* read_fasta's result, calculate_pwm's argument
    seq_no,        \* calculate_pwm: sequences counted so far
    pwm,           \* calculate_pwm: the matrix
    row_no,        \* write_pwm_to_tsv: rows written so far
    out_file,      \* the destination path: [exists, content]
    out_touched,   \* this run created or truncated the destination
    out_before,    \* the destination path as this run found it
    first_ok,      \* run 2: the first run printed its confirmation
    stdout,        \* messages printed to standard output by this run
    stderr,        \* messages printed to standard error by this run
    exit_status,   \* the process exit status, -1 while running
    panic          \* "none", or the panic that ended the run

vars == <<args_len, input_exists, lines, seed, run, pc, line_no, current_seq,
          sequences, seq_no, pwm, row_no, out_file, out_touched, out_before,
          first_ok,
          stdout, stderr, exit_status, panic>>

----------------------------------------------------------------------------
(* Bounds of the model *)

MaxLines == 3
MaxLineLen == 2
MaxSeqs == 2
MaxSeqLen == 2
MaxFileLines == 4
MaxArgsLen == 4

(* The characters the inputs are drawn from. ">" starts a header only in   *)
(* the first column; anywhere else it is a non-canonical residue.          *)
ReaderChars == {">", "A"}
PwmChars == {"A", "C", "é"}
PipeChars == {">", "A", "C"}
Seeds == {0, 1}

(* The lines of the whole program's input: empty, or one character. *)
PipeLines == {<<>>} \cup {<<c>> : c \in PipeChars}

SeqsUpTo(S, n) == UNION {[1..k -> S] : k \in 0..n}

----------------------------------------------------------------------------
(* Text *)

AMINO_ACIDS ==
    <<"A", "C", "D", "E", "F", "G", "H", "I", "K", "L",
      "M", "N", "P", "Q", "R", "S", "T", "V", "W", "Y">>

Canonical == {AMINO_ACIDS[j] : j \in 1..Len(AMINO_ACIDS)}

(* char::len_utf8 *)
Utf8Len(c) == IF c = "é" THEN 2 ELSE 1

RECURSIVE ByteLen(_)
(* String::len: the length in bytes *)
ByteLen(s) == IF s = <<>> THEN 0 ELSE Utf8Len(Head(s)) + ByteLen(Tail(s))

(* str::starts_with('>') *)
StartsWithGt(line) == Len(line) > 0 /\ line[1] = ">"

Digits == <<"0", "1", "2", "3", "4", "5", "6", "7", "8", "9">>

RECURSIVE Decimal(_)
(* Display of an unsigned integer *)
Decimal(n) ==
    IF n < 10 THEN <<Digits[n + 1]>>
    ELSE Decimal(n \div 10) \o <<Digits[(n % 10) + 1]>>

RECURSIVE Join(_, _)
(* [String]::join *)
Join(fields, sep) ==
    IF fields = <<>> THEN <<>>
    ELSE IF Len(fields) = 1 THEN fields[1]
    ELSE fields[1] \o sep \o Join(Tail(fields), sep)

----------------------------------------------------------------------------
(* f64 *)

Zero == <<0, 1>>
AddOne(v) == <<v[1] + v[2], v[2]>>
DivBy(v, n) == <<v[1], v[2] * n>>

(* The value in thousandths that "{:.3}" prints: the nearest one, a tie     *)
(* going to the even one. With fewer than 16 sequences no count / N is a    *)
(* tie, and the f64 quotient rounds as the fraction does.                   *)
Thousandths(v) ==
    LET q == (1000 * v[1]) \div v[2]
        r == (1000 * v[1]) % v[2]
    IN  IF 2 * r > v[2] \/ (2 * r = v[2] /\ q % 2 = 1) THEN q + 1 ELSE q

(* format!("{:.3}", v) *)
FormatFixed3(v) ==
    LET m == Thousandths(v)
    IN  Decimal(m \div 1000)
          \o <<".", Digits[((m \div 100) % 10) + 1],
                    Digits[((m \div 10) % 10) + 1],
                    Digits[(m % 10) + 1]>>

----------------------------------------------------------------------------
(* HashMap<char, f64> *)

EmptyMap == <<>>

ContainsKey(map, k) == \E e \in 1..Len(map) : map[e].key = k

Get(map, k) == map[CHOOSE e \in 1..Len(map) : map[e].key = k].val

(* HashMap::get(&k).unwrap_or(&0.0) *)
GetOrZero(map, k) == IF ContainsKey(map, k) THEN Get(map, k) ELSE Zero

(* HashMap::entry(k).or_insert(0.0): where a new entry lands in the         *)
(* iteration order depends on the hasher's seed.                            *)
EntryOrInsert(map, k, sd) ==
    IF ContainsKey(map, k) THEN map
    ELSE IF sd = 0 THEN Append(map, [key |-> k, val |-> Zero])
    ELSE <<[key |-> k, val |-> Zero]>> \o map

Update(map, k, v) ==
    [e \in 1..Len(map) |-> IF map[e].key = k THEN [key |-> k, val |-> v] ELSE map[e]]

(* A faulty variant of the count, which assigns 1.0 instead of adding it. *)
Increment_Assign(map, k, sd) ==
    LET m == EntryOrInsert(map, k, sd) IN Update(m, k, AddOne(Zero))

(* let count = m.entry(k).or_insert(0.0); *count += 1.0; *)
Increment(map, k, sd) ==
    LET m == EntryOrInsert(map, k, sd) IN Update(m, k, AddOne(Get(m, k)))

(* let count = m.entry(k).or_insert(0.0); *count /= n; *)
Normalize(map, k, n, sd) ==
    LET m == EntryOrInsert(map, k, sd) IN Update(m, k, DivBy(Get(m, k), n))

----------------------------------------------------------------------------
(* The process *)

NoFile == [exists |-> FALSE, content |-> <<>>]
OldFile == [exists |-> TRUE, content |-> << <<"o", "l", "d">> >>]

UsageMsg == "Usage: <program> <fasta_file_path> <output_tsv_path>"
MissingMsg == "Error: File does not exist."
ReadErrMsg == "Error reading FASTA file"
WriteErrMsg == "Error writing to TSV file"
PanicMsg == "Sequences must have the same length"
IndexMsg == "index out of bounds"
WrittenMsg == "PWM written to <output_tsv_path>"

(* The process ends: with std::process::exit(1), by main returning (0), or  *)
(* by a panic (101).                                                        *)
Exit(status, out, err, why) ==
    /\ pc' = "exited"
    /\ exit_status' = status
    /\ stdout' = stdout \o out
    /\ stderr' = stderr \o err
    /\ panic' = why

Running(next) ==
    /\ pc' = next
    /\ UNCHANGED <<exit_status, stdout, stderr, panic>>

env == <<args_len, input_exists, lines, seed, run, out_before, first_ok>>
reader == <<line_no, current_seq, sequences>>
builder == <<seq_no, pwm>>
writer == <<row_no, out_file, out_touched>>

----------------------------------------------------------------------------
(* read_fasta *)

(* Faulty variants of the loop body, which the properties below tell apart  *)
(* from it: without current_seq.clear(),                                    *)
ReadLine_NoClear(seqs, cur, line) ==
    IF StartsWithGt(line)
    THEN IF cur # <<>>
         THEN [sequences |-> Append(seqs, cur), current_seq |-> cur]
         ELSE [sequences |-> seqs, current_seq |-> cur]
    ELSE [sequences |-> seqs, current_seq |-> cur \o line]

(* without the is_empty() test,                                             *)
ReadLine_PushAlways(seqs, cur, line) ==
    IF StartsWithGt(line)
    THEN [sequences |-> Append(seqs, cur), current_seq |-> <<>>]
    ELSE [sequences |-> seqs, current_seq |-> cur \o line]

(* and with the first header discarding what came before it.                *)
ReadLine_DropLeading(seqs, cur, line) ==
    IF StartsWithGt(line)
    THEN IF cur # <<>> /\ seqs # <<>>
         THEN [sequences |-> Append(seqs, cur), current_seq |-> <<>>]
         ELSE [sequences |-> seqs, current_seq |-> <<>>]
    ELSE [sequences |-> seqs, current_seq |-> cur \o line]

(* One iteration of the loop over reader.lines(), on the two accumulators. *)
ReadLine(seqs, cur, line) ==
    IF StartsWithGt(line)
    THEN IF cur # <<>>
         THEN [sequences |-> Append(seqs, cur), current_seq |-> <<>>]
         ELSE [sequences |-> seqs, current_seq |-> cur]
    ELSE [sequences |-> seqs, current_seq |-> cur \o line]

(* After the loop: the accumulator is the last record, unless it is empty. *)
ReadEnd(seqs, cur) == IF cur # <<>> THEN Append(seqs, cur) ELSE seqs

(* File::open succeeds. *)
ReadFasta_Open ==
    /\ pc = "open"
    /\ line_no' = 0
    /\ current_seq' = <<>>
    /\ sequences' = <<>>
    /\ Running("lines")
    /\ UNCHANGED <<env, builder, writer>>

(* File::open fails: read_fasta returns the error, main reports it and      *)
(* returns.                                                                 *)
ReadFasta_OpenErr ==
    /\ pc = "open"
    /\ Exit(0, <<>>, <<ReadErrMsg>>, "none")
    /\ UNCHANGED <<env, reader, builder, writer>>

ReadFasta_Line ==
    /\ pc = "lines"
    /\ line_no < Len(lines)
    /\ LET r == ReadLine(sequences, current_seq, lines[line_no + 1])
       IN  /\ sequences' = r.sequences
           /\ current_seq' = r.current_seq
    /\ line_no' = line_no + 1
    /\ Running("lines")
    /\ UNCHANGED <<env, builder, writer>>

(* The next item of reader.lines() is an error (an I/O error, or a line     *)
(* that is not UTF-8): line? returns it.                                    *)
ReadFasta_LineErr ==
    /\ pc = "lines"
    /\ Exit(0, <<>>, <<ReadErrMsg>>, "none")
    /\ UNCHANGED <<env, reader, builder, writer>>

ReadFasta_Return ==
    /\ pc = "lines"
    /\ line_no = Len(lines)
    /\ sequences' = ReadEnd(sequences, current_seq)
    /\ Running("pwm")
    /\ UNCHANGED <<env, line_no, current_seq, builder, writer>>

----------------------------------------------------------------------------
(* calculate_pwm *)

(* A faulty variant of the assertion, which lets a shorter sequence pass. *)
SameLength_AtMost(seq, seq_length) == ByteLen(seq) <= seq_length

(* assert_eq!(seq.len(), seq_length) passes. *)
SameLength(seq, seq_length) == ByteLen(seq) = seq_length

RECURSIVE CountFrom(_, _, _, _)
(* for (i, residue) in seq.chars().enumerate(), from character i on. *)
CountFrom(m, seq, i, sd) ==
    IF i > Len(seq) THEN m
    ELSE CountFrom([m EXCEPT ![i] = Increment(m[i], seq[i], sd)], seq, i + 1, sd)

CountResidues(m, seq, sd) == CountFrom(m, seq, 1, sd)

RECURSIVE NormalizeFrom(_, _, _, _)
(* for aa in AMINO_ACIDS.chars(), from the j-th on. *)
NormalizeFrom(position, j, n, sd) ==
    IF j > Len(AMINO_ACIDS) THEN position
    ELSE NormalizeFrom(Normalize(position, AMINO_ACIDS[j], n, sd), j + 1, n, sd)

(* A faulty variant of the normalization, which divides by the number of    *)
(* columns instead of the number of sequences.                              *)
NormalizeColumn_ByLength(position, n, sd) == NormalizeFrom(position, 1, Len(pwm), sd)

NormalizeColumn(position, n, sd) == NormalizeFrom(position, 1, n, sd)

CalculatePwm_Empty ==
    /\ pc = "pwm"
    /\ sequences = <<>>
    /\ pwm' = <<>>
    /\ Running("create")
    /\ UNCHANGED <<env, reader, seq_no, writer>>

CalculatePwm_Init ==
    /\ pc = "pwm"
    /\ sequences # <<>>
    /\ pwm' = [i \in 1..ByteLen(sequences[1]) |-> EmptyMap]
    /\ seq_no' = 0
    /\ Running("count")
    /\ UNCHANGED <<env, reader, writer>>

(* One sequence of the counting loop. pwm[i] panics past the matrix's end. *)
CalculatePwm_Count ==
    /\ pc = "count"
    /\ seq_no < Len(sequences)
    /\ LET seq == sequences[seq_no + 1]
       IN  /\ SameLength(seq, Len(pwm))
           /\ IF Len(seq) > Len(pwm)
              THEN /\ Exit(101, <<>>, <<IndexMsg>>, "index")
                   /\ UNCHANGED builder
              ELSE /\ pwm' = CountResidues(pwm, seq, seed)
                   /\ seq_no' = seq_no + 1
                   /\ Running("count")
    /\ UNCHANGED <<env, reader, writer>>

(* assert_eq! fails. *)
CalculatePwm_Panic ==
    /\ pc = "count"
    /\ seq_no < Len(sequences)
    /\ ~SameLength(sequences[seq_no + 1], Len(pwm))
    /\ Exit(101, <<>>, <<PanicMsg>>, "assert_eq")
    /\ UNCHANGED <<env, reader, builder, writer>>

CalculatePwm_Return ==
    /\ pc = "count"
    /\ seq_no = Len(sequences)
    /\ pwm' = [i \in 1..Len(pwm) |-> NormalizeColumn(pwm[i], Len(sequences), seed)]
    /\ Running("create")
    /\ UNCHANGED <<env, reader, seq_no, writer>>

----------------------------------------------------------------------------
(* write_pwm_to_tsv. A line of the file is the text of one writeln!. *)

Tab == <<"\t">>

HeaderLine ==
    <<"P", "o", "s", "i", "t", "i", "o", "n">> \o Tab
        \o Join([j \in 1..Len(AMINO_ACIDS) |-> <<AMINO_ACIDS[j]>>], Tab)

(* A faulty variant of the row, which walks the HashMap instead of the      *)
(* alphabet.                                                                *)
RowFields_MapOrder(position) ==
    [e \in 1..Len(position) |-> FormatFixed3(position[e].val)]

(* The fields of a row, in the order of AMINO_ACIDS. *)
RowFields(position) ==
    [j \in 1..Len(AMINO_ACIDS) |-> FormatFixed3(GetOrZero(position, AMINO_ACIDS[j]))]

(* A faulty variant of the row, which numbers the columns from 0. *)
RowLine_FromZero(i, position) == Decimal(i) \o Tab \o Join(RowFields(position), Tab)

(* The row of column i (from 0). *)
RowLine(i, position) == Decimal(i + 1) \o Tab \o Join(RowFields(position), Tab)

(* File::create succeeds: the file exists and is empty. *)
Write_Create ==
    /\ pc = "create"
    /\ out_file' = [exists |-> TRUE, content |-> <<>>]
    /\ out_touched' = TRUE
    /\ Running("header")
    /\ UNCHANGED <<env, reader, builder, row_no>>

(* File::create fails: main reports the error and returns. *)
Write_CreateErr ==
    /\ pc = "create"
    /\ Exit(0, <<>>, <<WriteErrMsg>>, "none")
    /\ UNCHANGED <<env, reader, builder, writer>>

Write_Header ==
    /\ pc = "header"
    /\ out_file' = [out_file EXCEPT !.content = Append(@, HeaderLine)]
    /\ row_no' = 0
    /\ Running("rows")
    /\ UNCHANGED <<env, reader, builder, out_touched>>

Write_Row ==
    /\ pc = "rows"
    /\ row_no < Len(pwm)
    /\ out_file' = [out_file EXCEPT !.content = Append(@, RowLine(row_no, pwm[row_no + 1]))]
    /\ row_no' = row_no + 1
    /\ Running("rows")
    /\ UNCHANGED <<env, reader, builder, out_touched>>

(* A writeln! fails: the lines written so far stay in the file (the part of *)
(* its own line that the failed writeln! wrote is left out).                *)
Write_Err ==
    /\ \/ pc = "header"
       \/ pc = "rows" /\ row_no < Len(pwm)
    /\ Exit(0, <<>>, <<WriteErrMsg>>, "none")
    /\ UNCHANGED <<env, reader, builder, writer>>

(* write_pwm_to_tsv returns Ok: main prints the confirmation and returns. *)
Write_Ok ==
    /\ pc = "rows"
    /\ row_no = Len(pwm)
    /\ Exit(0, <<WrittenMsg>>, <<>>, "none")
    /\ UNCHANGED <<env, reader, builder, writer>>

----------------------------------------------------------------------------
(* main *)

Main_Usage ==
    /\ pc = "main"
    /\ args_len # 3
    /\ Exit(1, <<>>, <<UsageMsg>>, "none")
    /\ UNCHANGED <<env, reader, builder, writer>>

Main_Args ==
    /\ pc = "main"
    /\ args_len = 3
    /\ Running("exists")
    /\ UNCHANGED <<env, reader, builder, writer>>

(* Faulty variants of main: without the exit after the missing-input       *)
(* message,                                                                 *)
Main_Missing_NoExit ==
    /\ pc = "exists"
    /\ ~input_exists
    /\ pc' = "open"
    /\ stderr' = Append(stderr, MissingMsg)
    /\ UNCHANGED <<exit_status, stdout, panic>>
    /\ UNCHANGED <<env, reader, builder, writer>>

Main_Missing ==
    /\ pc = "exists"
    /\ ~input_exists
    /\ Exit(1, <<>>, <<MissingMsg>>, "none")
    /\ UNCHANGED <<env, reader, builder, writer>>

(* and with the output file created before the input is read.              *)
Main_Exists_CreateFirst ==
    /\ pc = "exists"
    /\ input_exists
    /\ out_file' = [exists |-> TRUE, content |-> <<>>]
    /\ out_touched' = TRUE
    /\ Running("open")
    /\ UNCHANGED <<env, reader, builder, row_no>>

Main_Exists ==
    /\ pc = "exists"
    /\ input_exists
    /\ Running("open")
    /\ UNCHANGED <<env, reader, builder, writer>>

(* The program is run a second time with the same arguments on the same     *)
(* input; its HashMaps get a new RandomState.                               *)
Main_Again ==
    /\ pc = "exited"
    /\ run = 1
    /\ run' = 2
    /\ seed' \in Seeds
    /\ first_ok' = (stdout # <<>>)
    /\ out_before' = out_file
    /\ pc' = "main"
    /\ line_no' = 0
    /\ current_seq' = <<>>
    /\ sequences' = <<>>
    /\ seq_no' = 0
    /\ pwm' = <<>>
    /\ row_no' = 0
    /\ out_touched' = FALSE
    /\ stdout' = <<>>
    /\ stderr' = <<>>
    /\ exit_status' = -1
    /\ panic' = "none"
    /\ UNCHANGED <<args_len, input_exists, lines, out_file>>

----------------------------------------------------------------------------
(* Specifications *)

Fresh ==
    /\ run = 1
    /\ seed \in Seeds
    /\ line_no = 0
    /\ current_seq = <<>>
    /\ seq_no = 0
    /\ pwm = <<>>
    /\ row_no = 0
    /\ out_touched = FALSE
    /\ out_before = out_file
    /\ first_ok = FALSE
    /\ stdout = <<>>
    /\ stderr = <<>>
    /\ exit_status = -1
    /\ panic = "none"

(* The whole program, run twice. *)
Init ==
    /\ args_len \in 1..MaxArgsLen
    /\ input_exists \in BOOLEAN
    /\ lines \in SeqsUpTo(PipeLines, MaxFileLines)
    /\ sequences = <<>>
    /\ out_file \in {NoFile, OldFile}
    /\ pc = "main"
    /\ Fresh

Next ==
    \/ Main_Usage
    \/ Main_Args
    \/ Main_Missing
    \/ Main_Exists
    \/ ReadFasta_Open
    \/ ReadFasta_OpenErr
    \/ ReadFasta_Line
    \/ ReadFasta_LineErr
    \/ ReadFasta_Return
    \/ CalculatePwm_Empty
    \/ CalculatePwm_Init
    \/ CalculatePwm_Count
    \/ CalculatePwm_Panic
    \/ CalculatePwm_Return
    \/ Write_Create
    \/ Write_CreateErr
    \/ Write_Header
    \/ Write_Row
    \/ Write_Err
    \/ Write_Ok
    \/ Main_Again

Spec == Init /\ [][Next]_vars

(* read_fasta alone, on every file of up to MaxLines lines. *)
InitReader ==
    /\ args_len = 3
    /\ input_exists = TRUE
    /\ lines \in SeqsUpTo(SeqsUpTo(ReaderChars, MaxLineLen), MaxLines)
    /\ sequences = <<>>
    /\ out_file = NoFile
    /\ pc = "open"
    /\ Fresh

NextReader ==
    \/ ReadFasta_Open
    \/ ReadFasta_OpenErr
    \/ ReadFasta_Line
    \/ ReadFasta_LineErr
    \/ ReadFasta_Return

SpecReader == InitReader /\ [][NextReader]_vars

(* calculate_pwm alone, on every collection of up to MaxSeqs sequences. *)
InitPwm ==
    /\ args_len = 3
    /\ input_exists = TRUE
    /\ lines = <<>>
    /\ out_file = NoFile
    /\ pc = "pwm"
    /\ Fresh
    /\ sequences \in SeqsUpTo(SeqsUpTo(PwmChars, MaxSeqLen), MaxSeqs)

NextPwm ==
    \/ CalculatePwm_Empty
    \/ CalculatePwm_Init
    \/ CalculatePwm_Count
    \/ CalculatePwm_Panic
    \/ CalculatePwm_Return

SpecPwm == InitPwm /\ [][NextPwm]_vars

----------------------------------------------------------------------------
(* What the claims speak of, stated on the input and not on the code. *)

IsHeader(line) == line # <<>> /\ Head(line) = ">"

HeaderLines(ls) == {i \in 1..Len(ls) : IsHeader(ls[i])}

RECURSIVE Concat(_, _, _)
(* The lines ls[from..to], one after the other, nothing between them. *)
Concat(ls, from, to) ==
    IF from > to THEN <<>> ELSE ls[from] \o Concat(ls, from + 1, to)

(* The first header line after line d, or the end of input. *)
NextDelimiter(ls, d) ==
    LET after == {h \in HeaderLines(ls) : h > d}
    IN  IF after = {} THEN Len(ls) + 1
        ELSE CHOOSE h \in after : \A g \in after : h <= g

RECURSIVE RecordsFrom(_, _)
(* The non-empty texts of the maximal runs of non-header lines that start   *)
(* after the delimiter d (0, or a header line).                             *)
RecordsFrom(ls, d) ==
    IF d > Len(ls) THEN <<>>
    ELSE LET nx == NextDelimiter(ls, d)
             text == Concat(ls, d + 1, nx - 1)
         IN  (IF text # <<>> THEN <<text>> ELSE <<>>) \o RecordsFrom(ls, nx)

Records(ls) == RecordsFrom(ls, 0)

ReadReturned == pc = "pwm"

(* C2: read_fasta returns, in file order, exactly the non-empty             *)
(* concatenations of the maximal runs of non-header lines delimited by      *)
(* header lines and the end of input; while it reads, the records finalized *)
(* so far plus the non-empty accumulator are those of the lines read, and   *)
(* the accumulator is empty right after a header line.                      *)
C2_ReadFastaRecords ==
    /\ ReadReturned => sequences = Records(lines)
    /\ pc = "lines" =>
        /\ ReadEnd(sequences, current_seq) = Records(SubSeq(lines, 1, line_no))
        /\ (line_no > 0 /\ IsHeader(lines[line_no])) => current_seq = <<>>

(* C2's case: a header line that carries text, and a record joined from the *)
(* two lines that follow it.                                                *)
C2_Witness ==
    /\ ReadReturned
    /\ Len(sequences) = 1
    /\ \E i \in 1..Len(lines) : IsHeader(lines[i]) /\ Len(lines[i]) > 1
    /\ \E i \in 1..(Len(lines) - 1) :
        ~IsHeader(lines[i]) /\ ~IsHeader(lines[i + 1])
            /\ lines[i] # <<>> /\ lines[i + 1] # <<>>

(* The slots of a file that have a body: the lines before the first header  *)
(* and each header, unless a header or the end of input follows at once.    *)
LiveSlots(ls) ==
    (IF ls # <<>> /\ ~IsHeader(ls[1]) THEN 1 ELSE 0)
        + Cardinality({h \in HeaderLines(ls) : h < Len(ls) /\ ~IsHeader(ls[h + 1])})

(* C7: no sequence read_fasta holds or returns is empty, and a header       *)
(* followed at once by a header or by the end of input adds no record.      *)
C7_NoEmptyRecord ==
    /\ \A i \in 1..Len(sequences) : sequences[i] # <<>>
    /\ ReadReturned => Len(sequences) <= LiveSlots(lines)
    /\ (ReadReturned /\ Len(lines) = 1 /\ IsHeader(lines[1])) => sequences = <<>>

(* C7's case: more header lines than records. *)
C7_Witness ==
    /\ ReadReturned
    /\ Len(sequences) = 1
    /\ Cardinality(HeaderLines(lines)) = 2
    /\ IsHeader(lines[Len(lines)])

(* The text before the first header line. *)
Leading(ls) == Concat(ls, 1, NextDelimiter(ls, 0) - 1)

(* C9: the content of the lines before the first header line starts the    *)
(* first sequence read_fasta returns.                                       *)
C9_LeadingContentKept ==
    (ReadReturned /\ Leading(lines) # <<>>) =>
        /\ sequences # <<>>
        /\ Len(sequences[1]) >= Len(Leading(lines))
        /\ SubSeq(sequences[1], 1, Len(Leading(lines))) = Leading(lines)

(* C9's case: content, then a header, then another record. *)
C9_Witness ==
    /\ ReadReturned
    /\ Leading(lines) # <<>>
    /\ HeaderLines(lines) # {}
    /\ Len(sequences) = 2

----------------------------------------------------------------------------
(* calculate_pwm's properties *)

PwmReturned == pc = "create"

NumSequences == Len(sequences)

(* The sequences among the first n whose character at column i (from 1) is a. *)
CountAt(n, i, a) ==
    Cardinality({s \in 1..n : i <= Len(sequences[s]) /\ sequences[s][i] = a})

(* C1: for a non-empty collection of N sequences of length L, calculate_pwm *)
(* returns L column profiles, in each of which every canonical symbol has a *)
(* frequency, equal to (sequences with that symbol at the column) / N, in   *)
(* [0, 1], and 0 for a symbol never seen at the column.                     *)
C1_Frequencies ==
    (PwmReturned /\ sequences # <<>>) =>
        /\ Len(pwm) = ByteLen(sequences[1])
        /\ \A i \in 1..Len(pwm) : \A a \in Canonical :
            /\ ContainsKey(pwm[i], a)
            /\ Cardinality({e \in 1..Len(pwm[i]) : pwm[i][e].key = a}) = 1
            /\ LET v == Get(pwm[i], a)
               IN  /\ v[2] > 0
                   /\ v[1] * NumSequences = CountAt(NumSequences, i, a) * v[2]
                   /\ 0 <= v[1] /\ v[1] <= v[2]
                   /\ CountAt(NumSequences, i, a) = 0 => v[1] = 0

(* C1's case: two sequences that differ at a column of a two-column matrix. *)
C1_Witness ==
    /\ PwmReturned
    /\ NumSequences = 2
    /\ Len(pwm) = 2
    /\ \E i \in 1..Len(pwm) :
        /\ Get(pwm[i], "A")[1] * 2 = Get(pwm[i], "A")[2]
        /\ Get(pwm[i], "C")[1] * 2 = Get(pwm[i], "C")[2]
        /\ Get(pwm[i], "D")[1] = 0

(* Some sequence's length differs from the first one's. *)
Mismatch == \E s \in 1..NumSequences : ByteLen(sequences[s]) # ByteLen(sequences[1])

FirstOdd ==
    CHOOSE s \in 1..NumSequences :
        /\ ByteLen(sequences[s]) # ByteLen(sequences[1])
        /\ \A t \in 1..(s - 1) : ByteLen(sequences[t]) = ByteLen(sequences[1])

(* The counts the matrix holds are those of the first n sequences. *)
CountedExactly(n) ==
    \A i \in 1..Len(pwm) : \A c \in PwmChars :
        GetOrZero(pwm[i], c) = <<CountAt(n, i, c), 1>>

(* C3: when some sequence's length differs from the first one's,            *)
(* calculate_pwm never returns a matrix and ends in the assertion's panic,  *)
(* having counted the sequences before the odd one and no character of it;  *)
(* no column outside the matrix is ever indexed.                            *)
C3_UnequalLengthPanics ==
    /\ panic # "index"
    /\ Mismatch =>
        /\ ~PwmReturned
        /\ pc \in {"pwm", "count"} =>
            ENABLED (CalculatePwm_Init \/ CalculatePwm_Count \/ CalculatePwm_Panic)
        /\ pc = "count" => seq_no < FirstOdd /\ CountedExactly(seq_no)
        /\ pc = "exited" =>
            /\ panic = "assert_eq"
            /\ exit_status = 101
            /\ seq_no = FirstOdd - 1
            /\ CountedExactly(FirstOdd - 1)

(* C3's cases: the panic on a longer and on a shorter sequence, after       *)
(* another one was counted.                                                 *)
C3_Witness ==
    /\ panic = "assert_eq"
    /\ seq_no = 1
    /\ ByteLen(sequences[2]) > ByteLen(sequences[1])

C3_WitnessShorter ==
    /\ panic = "assert_eq"
    /\ seq_no = 1
    /\ ByteLen(sequences[2]) < ByteLen(sequences[1])

RECURSIVE CanonicalSum(_, _)
(* The sum of the numerators that a column holds for the canonical symbols, *)
(* from the j-th on.                                                        *)
CanonicalSum(position, j) ==
    IF j > Len(AMINO_ACIDS) THEN 0
    ELSE GetOrZero(position, AMINO_ACIDS[j])[1] + CanonicalSum(position, j + 1)

(* Every sequence has a canonical symbol at column i. *)
AllCanonicalAt(i) ==
    \A s \in 1..NumSequences : i <= Len(sequences[s]) /\ sequences[s][i] \in Canonical

(* C4: for N sequences of equal length the counts that calculate_pwm holds  *)
(* for the canonical symbols of a column, once every sequence is counted,   *)
(* sum to at most N, and to N exactly when every sequence has a canonical   *)
(* symbol at the column; the matrix returned holds each of these counts     *)
(* over N.                                                                  *)
C4_CanonicalSum ==
    /\ (pc = "count" /\ seq_no = NumSequences) =>
        \A i \in 1..Len(pwm) :
            /\ \A a \in Canonical : GetOrZero(pwm[i], a)[2] = 1
            /\ CanonicalSum(pwm[i], 1) <= NumSequences
            /\ CanonicalSum(pwm[i], 1) = NumSequences <=> AllCanonicalAt(i)
    /\ (PwmReturned /\ sequences # <<>>) =>
        \A i \in 1..Len(pwm) :
            /\ \A a \in Canonical : GetOrZero(pwm[i], a)[2] = NumSequences
            /\ CanonicalSum(pwm[i], 1) <= NumSequences
            /\ CanonicalSum(pwm[i], 1) = NumSequences <=> AllCanonicalAt(i)

(* C4's case: a column where one sequence has a canonical symbol and the    *)
(* other a non-canonical one, so that the sum is 1 of 2.                    *)
C4_Witness ==
    /\ PwmReturned
    /\ NumSequences = 2
    /\ \E i \in 1..Len(pwm) :
        /\ CanonicalSum(pwm[i], 1) = 1
        /\ \E s \in 1..2 : i <= Len(sequences[s]) /\ sequences[s][i] \notin Canonical

----------------------------------------------------------------------------
(* The program's properties *)

Exited == pc = "exited"

(* The run read, built and wrote, and printed its confirmation. *)
Succeeded == Exited /\ stdout # <<>>

RECURSIVE Split(_)
(* The tab-separated fields of a line. *)
Split(line) ==
    IF line = <<>> THEN << <<>> >>
    ELSE IF Len(line) = 1
    THEN IF line[1] = "\t" THEN << <<>>, <<>> >> ELSE <<line>>
    ELSE LET mid == Len(line) \div 2
             l == Split(SubSeq(line, 1, mid))
             r == Split(SubSeq(line, mid + 1, Len(line)))
         IN  SubSeq(l, 1, Len(l) - 1) \o <<l[Len(l)] \o r[1]>> \o Tail(r)

DigitValue(c) == CHOOSE d \in 0..9 : Digits[d + 1] = c

IsDigit(c) == \E d \in 0..9 : Digits[d + 1] = c

RECURSIVE NatValue(_)
(* The number a string of digits denotes. *)
NatValue(ds) ==
    IF ds = <<>> THEN 0
    ELSE 10 * NatValue(SubSeq(ds, 1, Len(ds) - 1)) + DigitValue(ds[Len(ds)])

IsNat(ds) == ds # <<>> /\ \A i \in 1..Len(ds) : IsDigit(ds[i])

(* A field d.ddd, three digits after the point. *)
IsFixed3(f) ==
    /\ Len(f) >= 5
    /\ f[Len(f) - 3] = "."
    /\ IsNat(SubSeq(f, 1, Len(f) - 4))
    /\ IsNat(SubSeq(f, Len(f) - 2, Len(f)))

(* The thousandths a field d.ddd denotes. *)
Fixed3Value(f) ==
    1000 * NatValue(SubSeq(f, 1, Len(f) - 4)) + NatValue(SubSeq(f, Len(f) - 2, Len(f)))

Alphabet ==
    << <<"A">>, <<"C">>, <<"D">>, <<"E">>, <<"F">>, <<"G">>, <<"H">>, <<"I">>,
       <<"K">>, <<"L">>, <<"M">>, <<"N">>, <<"P">>, <<"Q">>, <<"R">>, <<"S">>,
       <<"T">>, <<"V">>, <<"W">>, <<"Y">> >>

(* The common length of the sequences, 0 when there is none. *)
CommonLength == IF sequences = <<>> THEN 0 ELSE ByteLen(sequences[1])

(* Field f is the frequency count / n to the nearest thousandth. *)
ShowsFrequency(f, count, n) ==
    /\ IsFixed3(f)
    /\ LET d == Fixed3Value(f) * n - 1000 * count
       IN  -n <= 2 * d /\ 2 * d <= n

(* C5: the output of a successful run is the header row, Position and the   *)
(* 20 canonical symbols in alphabet order, then one row for each of the L   *)
(* columns in order, L the common sequence length (0 without sequences);    *)
(* row k starts with k and carries the 20 frequencies of column k - 1 in    *)
(* alphabet order.                                                          *)
C5_OutputShape ==
    Succeeded =>
        /\ out_file.exists
        /\ Len(out_file.content) = CommonLength + 1
        /\ Split(out_file.content[1])
             = << <<"P", "o", "s", "i", "t", "i", "o", "n">> >> \o Alphabet
        /\ \A k \in 1..CommonLength :
            LET fields == Split(out_file.content[k + 1])
            IN  /\ Len(fields) = 21
                /\ IsNat(fields[1])
                /\ Head(fields[1]) # "0"
                /\ NatValue(fields[1]) = k
                /\ \A j \in 1..20 :
                    ShowsFrequency(fields[j + 1],
                                   CountAt(NumSequences, k, Alphabet[j][1]),
                                   NumSequences)

(* C5's case: two sequences of one column, half A and half C, written over  *)
(* an old file.                                                             *)
C5_Witness ==
    /\ Succeeded
    /\ out_before = OldFile
    /\ NumSequences = 2
    /\ Len(out_file.content) = 2
    /\ Split(out_file.content[2])[1] = <<"1">>
    /\ Split(out_file.content[2])[2] = <<"0", ".", "5", "0", "0">>
    /\ Split(out_file.content[2])[3] = <<"0", ".", "5", "0", "0">>
    /\ Split(out_file.content[2])[4] = <<"0", ".", "0", "0", "0">>

(* C5's other case: no sequence, and the header row alone. *)
C5_WitnessEmpty ==
    /\ Succeeded
    /\ sequences = <<>>
    /\ lines # <<>>
    /\ Len(out_file.content) = 1

(* C6: a wrong argument count or a missing input ends the run with status  *)
(* 1 after its message, before any parsing and without creating the output; *)
(* a read or a write failure prints its message and the run ends with       *)
(* status 0; only a run that read, built the matrix and wrote every row     *)
(* prints the confirmation.                                                 *)
C6_Outcome ==
    /\ pc \in {"main", "exists"} =>
        line_no = 0 /\ sequences = <<>> /\ ~out_touched /\ stderr = <<>>
    /\ (Exited /\ args_len # 3) =>
        /\ exit_status = 1
        /\ stderr = <<UsageMsg>> /\ stdout = <<>>
        /\ line_no = 0 /\ sequences = <<>> /\ ~out_touched /\ out_file = out_before
    /\ (Exited /\ args_len = 3 /\ ~input_exists) =>
        /\ exit_status = 1
        /\ stderr = <<MissingMsg>> /\ stdout = <<>>
        /\ line_no = 0 /\ sequences = <<>> /\ ~out_touched /\ out_file = out_before
    /\ (Exited /\ exit_status = 1) => (args_len # 3 \/ ~input_exists)
    /\ (Exited /\ args_len = 3 /\ input_exists /\ panic = "none") =>
        /\ exit_status = 0
        /\ \/ stderr = <<ReadErrMsg>> /\ stdout = <<>> /\ ~out_touched
           \/ stderr = <<WriteErrMsg>> /\ stdout = <<>>
           \/ stderr = <<>> /\ stdout = <<WrittenMsg>>
    /\ Succeeded =>
        /\ args_len = 3 /\ input_exists /\ panic = "none" /\ stderr = <<>>
        /\ line_no = Len(lines)
        /\ seq_no = Len(sequences)
        /\ Len(pwm) = CommonLength
        /\ out_touched
        /\ row_no = Len(pwm)
        /\ Len(out_file.content) = Len(pwm) + 1

(* C6's cases: a read failure after some lines were read, ending with       *)
(* status 0,                                                                *)
C6_Witness ==
    /\ Exited
    /\ stderr = <<ReadErrMsg>>
    /\ exit_status = 0
    /\ line_no = 2

(* a write failure that leaves a part of the table, ending with status 0,   *)
C6_WitnessWrite ==
    /\ Exited
    /\ stderr = <<WriteErrMsg>>
    /\ exit_status = 0
    /\ Len(out_file.content) = 2
    /\ Len(pwm) = 2

(* and a missing input with the right number of arguments.                  *)
C6_WitnessMissing ==
    /\ Exited
    /\ args_len = 3
    /\ stderr = <<MissingMsg>>
    /\ exit_status = 1

(* C8: a second run on the same input that succeeds as the first one did    *)
(* leaves the very output the first one left, whatever the order of its     *)
(* HashMaps.                                                                *)
C8_SameOutput ==
    (run = 2 /\ first_ok /\ Succeeded) => out_file = out_before

(* C8's case: a second run whose HashMaps put new entries first, on two     *)
(* sequences.                                                               *)
C8_Witness ==
    /\ run = 2
    /\ first_ok
    /\ Succeeded
    /\ seed = 1
    /\ NumSequences = 2
    /\ pwm[1][1].key = "Y"

(* The run ended with a usage, missing-input or read error, or in the       *)
(* length assertion's panic.                                                *)
EndedEarly ==
    /\ Exited
    /\ \/ stderr = <<UsageMsg>>
       \/ stderr = <<MissingMsg>>
       \/ stderr = <<ReadErrMsg>>
       \/ panic # "none"

(* C10: the output file is created or truncated only once read_fasta has    *)
(* succeeded and calculate_pwm has returned its matrix; a run that ends     *)
(* with a usage, missing-input or read error, or in the length assertion's  *)
(* panic, leaves the destination as it found it.                            *)
C10_OutputAfterMatrix ==
    /\ out_touched =>
        /\ pc \in {"header", "rows", "exited"}
        /\ panic = "none"
        /\ line_no = Len(lines)
        /\ sequences = ReadEnd(sequences, <<>>)
        /\ seq_no = Len(sequences)
        /\ Len(pwm) = CommonLength
        /\ \A i \in 1..Len(pwm) : \A j \in 1..Len(AMINO_ACIDS) :
            ContainsKey(pwm[i], AMINO_ACIDS[j])
    /\ ~out_touched => out_file = out_before
    /\ EndedEarly => ~out_touched /\ out_file = out_before

(* C10's case: the panic, with an old file at the destination. *)
C10_Witness ==
    /\ Exited
    /\ panic = "assert_eq"
    /\ out_file = OldFile

====
